---- MODULE Spec2Model ----
(***************************************************************************)
(* macmasq: a model of src/macmasq.c.                                      *)
(*                                                                         *)
(* The kernel side is one network interface (its name, its flags word and  *)
(* its hardware address) answering the socket/ioctl/close requests of the  *)
(* program.  Every request may succeed or fail; a failed request leaves    *)
(* the interface as it was.  Each process runs main(): the argument check, *)
(* generate_mac_address(), change_mac_address() and the report.            *)
(***************************************************************************)
EXTENDS Integers, Sequences, FiniteSets, TLC

VARIABLES
    procs,          \* the processes that run main()
    if_flags,       \* kernel: the interface's flags word
    if_hwaddr,      \* kernel: the interface's hardware address, six bytes
    pc,             \* per process: position in the program
    argc,           \* per process: number of command-line arguments
    argv1,          \* per process: argv[1], the interface name (<<>> if absent)
    rands,          \* per process: the values rand() has returned so far
    mac_addr,       \* per process: generate_mac_address's mac_addr.bytes written so far
    new_mac,        \* per process: main's new_mac / the new_mac parameter
    socket_fd,      \* per process: change_mac_address's socket_fd
    ifr_name,       \* per process: interface_request.ifr_name
    ifr_ifru,       \* per process: interface_request's union (flags / hwaddr share storage)
    original_flags, \* per process: change_mac_address's original_flags
    result,         \* per process: the value change_mac_address returned
    exit_code,      \* per process: the value main returned
    out,            \* per process: what was written to stdout
    err,            \* per process: what was written to stderr
    trace,          \* every request made to the kernel, in order
    entry_flags,    \* per process: the interface's flags when change_mac_address was entered
    entry_hwaddr    \* per process: the interface's address when change_mac_address was entered

vars == <<procs, if_flags, if_hwaddr, pc, argc, argv1, rands, mac_addr, new_mac,
          socket_fd, ifr_name, ifr_ifru, original_flags, result, exit_code,
          out, err, trace, entry_flags, entry_hwaddr>>

kernel == <<if_flags, if_hwaddr>>
genvars == <<rands, mac_addr>>
reqvars == <<socket_fd, ifr_name, ifr_ifru, original_flags>>
iovars == <<exit_code, out, err>>
entryvars == <<entry_flags, entry_hwaddr>>

(***************************************************************************)
(* Program constants.                                                      *)
(***************************************************************************)
IFNAMSIZ == 16
IFF_UP == 1
ARPHRD_ETHER == 1
RAND_MAX == 2147483647
EXIT_SUCCESS == 0
EXIT_FAILURE == 1

(***************************************************************************)
(* Bounds of the model.                                                    *)
(***************************************************************************)
MaxFlags == 3
MaxNameLen == 16

NoValue == -1

(***************************************************************************)
(* Bit arithmetic on w-bit words, as C's & and | compute it.               *)
(***************************************************************************)
RECURSIVE BitAnd(_, _, _)
BitAnd(a, b, w) ==
    IF w = 0 THEN 0
    ELSE (a % 2) * (b % 2) + 2 * BitAnd(a \div 2, b \div 2, w - 1)

RECURSIVE BitOr(_, _, _)
BitOr(a, b, w) ==
    IF w = 0 THEN 0
    ELSE (IF (a % 2) + (b % 2) > 0 THEN 1 ELSE 0) + 2 * BitOr(a \div 2, b \div 2, w - 1)

Min(a, b) == IF a < b THEN a ELSE b

(***************************************************************************)
(* The environment: the interface that exists, the names a caller may      *)
(* pass, the values rand() may return.                                     *)
(***************************************************************************)
Xs(n) == [i \in 1..n |-> "x"]

IfName == Xs(IFNAMSIZ - 1)

ArgNames == {Xs(1), Xs(IFNAMSIZ - 1), Xs(MaxNameLen)}

RandValues == {0, 1, RAND_MAX}

InitHwaddr == <<2, 0, 0, 0, 0, 0>>

\* The outcomes an ioctl on the interface named `name` can have.
IoctlOutcomes(name) == IF name = IfName THEN {TRUE, FALSE} ELSE {FALSE}

\* One request to the kernel: who made it, the source line of the call, the
\* operation, the descriptor, and for an ioctl the ifreq it carried (name, the
\* first 16-bit word of the union, the bytes after it) and whether it succeeded.
Req(p, site, op, fd, name, w0, data, ok) ==
    [proc |-> p, site |-> site, op |-> op, fd |-> fd, name |-> name,
     w0 |-> w0, data |-> data, ok |-> ok]

Close(p, site, fd) == Req(p, site, "close", fd, <<>>, NoValue, <<>>, TRUE)


(***************************************************************************)
(* generate_mac_address                                                    *)
(***************************************************************************)
\* mac_addr.bytes[i] = rand() % 256, stored in an unsigned char
RandByte(r) == r % 256

\* mutant: the multicast bit is not cleared, bytes[0] | 0x02
FixFirstByte_NoClear(b) == BitOr(b, 2, 8)

\* (mac_addr.bytes[0] & 0xFE) | 0x02
FixFirstByte(b) == BitOr(BitAnd(b, 254, 8), 2, 8)

(***************************************************************************)
(* Text written by the program.                                            *)
(***************************************************************************)
HexDigits == <<"0", "1", "2", "3", "4", "5", "6", "7",
               "8", "9", "A", "B", "C", "D", "E", "F">>

\* mutant: "%2X", padded with a space instead of a zero
Hex02X_SpacePad(b) ==
    <<IF b < 16 THEN " " ELSE HexDigits[(b \div 16) + 1], HexDigits[(b % 16) + 1]>>

\* printf("%02X", b) for an unsigned char b
Hex02X(b) == <<HexDigits[(b \div 16) + 1], HexDigits[(b % 16) + 1]>>

\* "New MAC: %02X:%02X:%02X:%02X:%02X:%02X\n"
FormatNewMac(m) ==
    <<"New MAC: ">> \o Hex02X(m[1]) \o <<":">> \o Hex02X(m[2]) \o <<":">>
        \o Hex02X(m[3]) \o <<":">> \o Hex02X(m[4]) \o <<":">>
        \o Hex02X(m[5]) \o <<":">> \o Hex02X(m[6]) \o <<"\n">>

\* strncpy(dst, src, n) followed by dst[n] = '\0': the C string dst then holds
Strncpy(src, n) == SubSeq(src, 1, Min(Len(src), n))

\* mutant: the complement is missing, ifr_flags &= IFF_UP
ClearUp_MissingNot(flags) == BitAnd(flags, IFF_UP, 16)

\* interface_request.ifr_flags &= ~IFF_UP  (ifr_flags is a 16-bit short)
ClearUp(flags) == BitAnd(flags, 65535 - IFF_UP, 16)

IsUp(flags) == BitAnd(flags, IFF_UP, 16) # 0

(***************************************************************************)
(* Initial states: one process, about to run main().                       *)
(***************************************************************************)
InitProc(ps) ==
    /\ procs = ps
    /\ if_flags \in 0..MaxFlags
    /\ if_hwaddr = InitHwaddr
    /\ argc \in [ps -> {1, 2}]
    /\ argv1 \in [ps -> ArgNames \cup {<<>>}]
    /\ \A p \in ps : (argc[p] < 2) <=> (argv1[p] = <<>>)
    /\ pc = [p \in ps |-> "main"]
    /\ rands = [p \in ps |-> <<>>]
    /\ mac_addr = [p \in ps |-> <<>>]
    /\ new_mac = [p \in ps |-> <<>>]
    /\ socket_fd = [p \in ps |-> NoValue]
    /\ ifr_name = [p \in ps |-> <<>>]
    /\ ifr_ifru = [p \in ps |-> [w0 |-> NoValue, data |-> <<>>]]
    /\ original_flags = [p \in ps |-> NoValue]
    /\ result = [p \in ps |-> "none"]
    /\ exit_code = [p \in ps |-> NoValue]
    /\ out = [p \in ps |-> <<>>]
    /\ err = [p \in ps |-> <<>>]
    /\ trace = <<>>
    /\ entry_flags = [p \in ps |-> NoValue]
    /\ entry_hwaddr = [p \in ps |-> <<>>]

\* the process of a single run of the program
SingleRun == {1}

Init == InitProc(SingleRun)

(***************************************************************************)
(* main, up to the call of change_mac_address                              *)
(***************************************************************************)
\* if (argc < 2) { usage; return EXIT_FAILURE; }  srand(getpid());
MainStart(p) ==
    /\ pc[p] = "main"
    /\ IF argc[p] < 2
       THEN /\ err' = [err EXCEPT ![p] = Append(@, "Usage: %s INTERFACE\n")]
            /\ exit_code' = [exit_code EXCEPT ![p] = EXIT_FAILURE]
            /\ pc' = [pc EXCEPT ![p] = "exit"]
       ELSE /\ pc' = [pc EXCEPT ![p] = "generate"]
            /\ UNCHANGED <<err, exit_code>>
    /\ UNCHANGED <<procs, kernel, argc, argv1, genvars, new_mac, reqvars, result,
                   out, trace, entryvars>>

\* one iteration of the loop: mac_addr.bytes[i] = rand() % 256
GenByte(p) ==
    /\ pc[p] = "generate"
    /\ Len(mac_addr[p]) < 6
    /\ \E r \in RandValues :
        /\ rands' = [rands EXCEPT ![p] = Append(@, r)]
        /\ mac_addr' = [mac_addr EXCEPT ![p] = Append(@, RandByte(r))]
    /\ UNCHANGED <<procs, kernel, pc, argc, argv1, new_mac, reqvars, result,
                   iovars, trace, entryvars>>

\* the loop is over: fix the first byte, return mac_addr; main stores it in new_mac
GenReturn(p) ==
    /\ pc[p] = "generate"
    /\ Len(mac_addr[p]) = 6
    /\ mac_addr' = [mac_addr EXCEPT ![p][1] = FixFirstByte(@)]
    /\ new_mac' = [new_mac EXCEPT ![p] = mac_addr'[p]]
    /\ pc' = [pc EXCEPT ![p] = "socket"]
    /\ UNCHANGED <<procs, kernel, argc, argv1, rands, reqvars, result,
                   iovars, trace, entryvars>>

(***************************************************************************)
(* change_mac_address.  Each action is one request to the kernel together  *)
(* with the statements that follow it up to the next request.              *)
(*                                                                         *)
(* interface_request.ifr_flags and interface_request.ifr_hwaddr are        *)
(* members of one union: ifr_flags and ifr_hwaddr.sa_family are the same   *)
(* 16-bit word (w0), ifr_hwaddr.sa_data the bytes after it (data).         *)
(***************************************************************************)
\* mutant: memcpy of five bytes, the sixth left zero
HwaddrRequest_Short(mac) ==
    [w0 |-> ARPHRD_ETHER, data |-> [i \in 1..6 |-> IF i < 6 THEN mac[i] ELSE 0]]

\* ifr_hwaddr.sa_family = ARPHRD_ETHER; memcpy(ifr_hwaddr.sa_data, new_mac.bytes, 6)
HwaddrRequest(mac) == [w0 |-> ARPHRD_ETHER, data |-> [i \in 1..6 |-> mac[i]]]

\* return false / return true from change_mac_address, after perror and close
Return(p, value, msgs, reqs) ==
    /\ result' = [result EXCEPT ![p] = value]
    /\ err' = [err EXCEPT ![p] = @ \o msgs]
    /\ trace' = trace \o reqs
    /\ pc' = [pc EXCEPT ![p] = "report"]

\* socket(AF_INET, SOCK_DGRAM, IPPROTO_IP), then the copy of the interface name
Socket(p) ==
    /\ pc[p] = "socket"
    /\ entry_flags' = [entry_flags EXCEPT ![p] = if_flags]
    /\ entry_hwaddr' = [entry_hwaddr EXCEPT ![p] = if_hwaddr]
    /\ \E ok \in BOOLEAN :
        LET fd == IF ok THEN 3 ELSE -1
            req == Req(p, 84, "socket", fd, <<>>, NoValue, <<>>, ok)
        IN  /\ socket_fd' = [socket_fd EXCEPT ![p] = fd]
            /\ IF ok
               THEN /\ ifr_name' = [ifr_name EXCEPT ![p] = Strncpy(argv1[p], IFNAMSIZ - 1)]
                    /\ trace' = Append(trace, req)
                    /\ pc' = [pc EXCEPT ![p] = "get_flags"]
                    /\ UNCHANGED <<result, err>>
               ELSE /\ Return(p, "false", <<"socket">>, <<req>>)
                    /\ UNCHANGED ifr_name
    /\ UNCHANGED <<procs, kernel, argc, argv1, genvars, new_mac, ifr_ifru,
                   original_flags, exit_code, out>>

\* ioctl(socket_fd, SIOCGIFFLAGS, &interface_request); on success the flags are
\* saved in original_flags and IFF_UP is cleared in the request
GetFlags(p) ==
    /\ pc[p] = "get_flags"
    /\ \E ok \in IoctlOutcomes(ifr_name[p]) :
        LET req == Req(p, 95, "SIOCGIFFLAGS", socket_fd[p], ifr_name[p],
                       ifr_ifru[p].w0, ifr_ifru[p].data, ok)
        IN  IF ok
            THEN /\ original_flags' = [original_flags EXCEPT ![p] = if_flags]
                 /\ ifr_ifru' = [ifr_ifru EXCEPT ![p].w0 = ClearUp(if_flags)]
                 /\ trace' = Append(trace, req)
                 /\ pc' = [pc EXCEPT ![p] = "down"]
                 /\ UNCHANGED <<result, err>>
            ELSE /\ Return(p, "false", <<"ioctl (SIOCGIFFLAGS)">>,
                           <<req, Close(p, 97, socket_fd[p])>>)
                 /\ UNCHANGED <<original_flags, ifr_ifru>>
    /\ UNCHANGED <<procs, kernel, argc, argv1, genvars, new_mac, socket_fd, ifr_name,
                   exit_code, out, entryvars>>

\* mutant: the result of the bring-down request is not checked
Down_Unchecked(p) ==
    /\ pc[p] = "down"
    /\ \E ok \in IoctlOutcomes(ifr_name[p]) :
        LET req == Req(p, 106, "SIOCSIFFLAGS", socket_fd[p], ifr_name[p],
                       ifr_ifru[p].w0, ifr_ifru[p].data, ok)
        IN  /\ if_flags' = IF ok THEN ifr_ifru[p].w0 ELSE if_flags
            /\ ifr_ifru' = [ifr_ifru EXCEPT ![p] = HwaddrRequest(new_mac[p])]
            /\ trace' = Append(trace, req)
            /\ pc' = [pc EXCEPT ![p] = "set_hwaddr"]
            /\ UNCHANGED <<result, err>>
    /\ UNCHANGED <<procs, if_hwaddr, argc, argv1, genvars, new_mac, socket_fd, ifr_name,
                   original_flags, exit_code, out, entryvars>>

\* ioctl(socket_fd, SIOCSIFFLAGS, &interface_request) with IFF_UP cleared; on
\* success the request is filled with ARPHRD_ETHER and the bytes of new_mac
Down(p) ==
    /\ pc[p] = "down"
    /\ \E ok \in IoctlOutcomes(ifr_name[p]) :
        LET req == Req(p, 106, "SIOCSIFFLAGS", socket_fd[p], ifr_name[p],
                       ifr_ifru[p].w0, ifr_ifru[p].data, ok)
        IN  IF ok
            THEN /\ if_flags' = ifr_ifru[p].w0
                 /\ ifr_ifru' = [ifr_ifru EXCEPT ![p] = HwaddrRequest(new_mac[p])]
                 /\ trace' = Append(trace, req)
                 /\ pc' = [pc EXCEPT ![p] = "set_hwaddr"]
                 /\ UNCHANGED <<result, err>>
            ELSE /\ Return(p, "false", <<"ioctl (SIOCSIFFLAGS - down)">>,
                           <<req, Close(p, 108, socket_fd[p])>>)
                 /\ UNCHANGED <<if_flags, ifr_ifru>>
    /\ UNCHANGED <<procs, if_hwaddr, argc, argv1, genvars, new_mac, socket_fd, ifr_name,
                   original_flags, exit_code, out, entryvars>>

\* mutant: the request's flags are not set back to original_flags
SetHwaddr_KeepFlags(p) ==
    /\ pc[p] = "set_hwaddr"
    /\ \E ok \in IoctlOutcomes(ifr_name[p]) :
        LET req == Req(p, 117, "SIOCSIFHWADDR", socket_fd[p], ifr_name[p],
                       ifr_ifru[p].w0, ifr_ifru[p].data, ok)
        IN  /\ trace' = Append(trace, req)
            /\ UNCHANGED ifr_ifru
            /\ IF ok
               THEN /\ if_hwaddr' = ifr_ifru[p].data
                    /\ pc' = [pc EXCEPT ![p] = "up"]
                    /\ UNCHANGED err
               ELSE /\ err' = [err EXCEPT ![p] = Append(@, "ioctl (SIOCSIFHWADDR)")]
                    /\ pc' = [pc EXCEPT ![p] = "recover"]
                    /\ UNCHANGED if_hwaddr
    /\ UNCHANGED <<procs, if_flags, argc, argv1, genvars, new_mac, socket_fd, ifr_name,
                   original_flags, result, exit_code, out, entryvars>>

\* ioctl(socket_fd, SIOCSIFHWADDR, &interface_request); either way the request's
\* flags are then set back to original_flags
SetHwaddr(p) ==
    /\ pc[p] = "set_hwaddr"
    /\ \E ok \in IoctlOutcomes(ifr_name[p]) :
        LET req == Req(p, 117, "SIOCSIFHWADDR", socket_fd[p], ifr_name[p],
                       ifr_ifru[p].w0, ifr_ifru[p].data, ok)
        IN  /\ trace' = Append(trace, req)
            /\ ifr_ifru' = [ifr_ifru EXCEPT ![p].w0 = original_flags[p]]
            /\ IF ok
               THEN /\ if_hwaddr' = ifr_ifru[p].data
                    /\ pc' = [pc EXCEPT ![p] = "up"]
                    /\ UNCHANGED err
               ELSE /\ err' = [err EXCEPT ![p] = Append(@, "ioctl (SIOCSIFHWADDR)")]
                    /\ pc' = [pc EXCEPT ![p] = "recover"]
                    /\ UNCHANGED if_hwaddr
    /\ UNCHANGED <<procs, if_flags, argc, argv1, genvars, new_mac, socket_fd, ifr_name,
                   original_flags, result, exit_code, out, entryvars>>

\* mutant: no recovery request after a failed SIOCSIFHWADDR
Recover_NoIoctl(p) ==
    /\ pc[p] = "recover"
    /\ Return(p, "false", <<>>, <<Close(p, 121, socket_fd[p])>>)
    /\ UNCHANGED <<procs, kernel, argc, argv1, genvars, new_mac, reqvars,
                   exit_code, out, entryvars>>

\* mutant: the return after the recovery request is missing
Recover_FallThrough(p) ==
    /\ pc[p] = "recover"
    /\ \E ok \in IoctlOutcomes(ifr_name[p]) :
        LET req == Req(p, 120, "SIOCSIFFLAGS", socket_fd[p], ifr_name[p],
                       ifr_ifru[p].w0, ifr_ifru[p].data, ok)
        IN  /\ if_flags' = IF ok THEN ifr_ifru[p].w0 ELSE if_flags
            /\ trace' = trace \o <<req, Close(p, 121, socket_fd[p])>>
            /\ pc' = [pc EXCEPT ![p] = "up"]
    /\ UNCHANGED <<procs, if_hwaddr, argc, argv1, genvars, new_mac, reqvars, result,
                   iovars, entryvars>>

\* after a failed SIOCSIFHWADDR: ioctl(socket_fd, SIOCSIFFLAGS, &interface_request)
\* with the original flags, its result ignored; close; return false
Recover(p) ==
    /\ pc[p] = "recover"
    /\ \E ok \in IoctlOutcomes(ifr_name[p]) :
        LET req == Req(p, 120, "SIOCSIFFLAGS", socket_fd[p], ifr_name[p],
                       ifr_ifru[p].w0, ifr_ifru[p].data, ok)
        IN  /\ if_flags' = IF ok THEN ifr_ifru[p].w0 ELSE if_flags
            /\ Return(p, "false", <<>>, <<req, Close(p, 121, socket_fd[p])>>)
    /\ UNCHANGED <<procs, if_hwaddr, argc, argv1, genvars, new_mac, reqvars,
                   exit_code, out, entryvars>>

\* mutant: the socket is not closed when the restore request fails
Up_LeakOnFailure(p) ==
    /\ pc[p] = "up"
    /\ \E ok \in IoctlOutcomes(ifr_name[p]) :
        LET req == Req(p, 128, "SIOCSIFFLAGS", socket_fd[p], ifr_name[p],
                       ifr_ifru[p].w0, ifr_ifru[p].data, ok)
        IN  IF ok
            THEN /\ if_flags' = ifr_ifru[p].w0
                 /\ Return(p, "true", <<>>, <<req, Close(p, 134, socket_fd[p])>>)
            ELSE /\ UNCHANGED if_flags
                 /\ Return(p, "false", <<"ioctl (SIOCSIFFLAGS - up)">>, <<req>>)
    /\ UNCHANGED <<procs, if_hwaddr, argc, argv1, genvars, new_mac, reqvars,
                   exit_code, out, entryvars>>

\* after a successful SIOCSIFHWADDR: ioctl(socket_fd, SIOCSIFFLAGS, &interface_request)
\* with the original flags; close; return true, or false if the request failed
Up(p) ==
    /\ pc[p] = "up"
    /\ \E ok \in IoctlOutcomes(ifr_name[p]) :
        LET req == Req(p, 128, "SIOCSIFFLAGS", socket_fd[p], ifr_name[p],
                       ifr_ifru[p].w0, ifr_ifru[p].data, ok)
        IN  IF ok
            THEN /\ if_flags' = ifr_ifru[p].w0
                 /\ Return(p, "true", <<>>, <<req, Close(p, 134, socket_fd[p])>>)
            ELSE /\ UNCHANGED if_flags
                 /\ Return(p, "false", <<"ioctl (SIOCSIFFLAGS - up)">>,
                           <<req, Close(p, 130, socket_fd[p])>>)
    /\ UNCHANGED <<procs, if_hwaddr, argc, argv1, genvars, new_mac, reqvars,
                   exit_code, out, entryvars>>

(***************************************************************************)
(* main, after change_mac_address has returned                             *)
(***************************************************************************)
Report(p) ==
    /\ pc[p] = "report"
    /\ IF result[p] = "true"
       THEN /\ out' = [out EXCEPT ![p] = @ \o FormatNewMac(new_mac[p])]
            /\ exit_code' = [exit_code EXCEPT ![p] = EXIT_SUCCESS]
            /\ UNCHANGED err
       ELSE /\ err' = [err EXCEPT ![p] = Append(@, "Failed to change MAC address.\n")]
            /\ exit_code' = [exit_code EXCEPT ![p] = EXIT_FAILURE]
            /\ UNCHANGED out
    /\ pc' = [pc EXCEPT ![p] = "exit"]
    /\ UNCHANGED <<procs, kernel, argc, argv1, genvars, new_mac, reqvars, result,
                   trace, entryvars>>

Next ==
    \/ \E p \in procs : MainStart(p)
    \/ \E p \in procs : GenByte(p)
    \/ \E p \in procs : GenReturn(p)
    \/ \E p \in procs : Socket(p)
    \/ \E p \in procs : GetFlags(p)
    \/ \E p \in procs : Down(p)
    \/ \E p \in procs : SetHwaddr(p)
    \/ \E p \in procs : Recover(p)
    \/ \E p \in procs : Up(p)
    \/ \E p \in procs : Report(p)

Spec == Init /\ [][Next]_vars

\* The program runs sequentially and every library and system call returns:
\* a process that can take a step takes it.
FairSpec == Spec /\ WF_vars(Next)

(***************************************************************************)
(* Two invocations of change_mac_address running concurrently on the same  *)
(* interface: two processes, each at the entry of change_mac_address with  *)
(* the address generate_mac_address returned to it.  Their requests        *)
(* interleave in any order; each request is atomic in the kernel.          *)
(***************************************************************************)
ConcurrentRuns == {1, 2}

\* the values rand() returned to each of the two processes
ConcurrentRands == <<(<<RAND_MAX, 0, 0, 0, 0, 0>>), (<<1, 0, 0, 0, 0, RAND_MAX>>)>>

\* the address generate_mac_address returns when rand() returns rs[1..6]
GeneratedMac(rs) ==
    [i \in 1..6 |-> IF i = 1 THEN FixFirstByte(RandByte(rs[i])) ELSE RandByte(rs[i])]

InitConcurrent ==
    /\ procs = ConcurrentRuns
    /\ if_flags \in 0..MaxFlags
    /\ if_hwaddr = InitHwaddr
    /\ argc = [p \in ConcurrentRuns |-> 2]
    /\ argv1 = [p \in ConcurrentRuns |-> IfName]
    /\ pc = [p \in ConcurrentRuns |-> "socket"]
    /\ rands = [p \in ConcurrentRuns |-> ConcurrentRands[p]]
    /\ mac_addr = [p \in ConcurrentRuns |-> GeneratedMac(ConcurrentRands[p])]
    /\ new_mac = [p \in ConcurrentRuns |-> GeneratedMac(ConcurrentRands[p])]
    /\ socket_fd = [p \in ConcurrentRuns |-> NoValue]
    /\ ifr_name = [p \in ConcurrentRuns |-> <<>>]
    /\ ifr_ifru = [p \in ConcurrentRuns |-> [w0 |-> NoValue, data |-> <<>>]]
    /\ original_flags = [p \in ConcurrentRuns |-> NoValue]
    /\ result = [p \in ConcurrentRuns |-> "none"]
    /\ exit_code = [p \in ConcurrentRuns |-> NoValue]
    /\ out = [p \in ConcurrentRuns |-> <<>>]
    /\ err = [p \in ConcurrentRuns |-> <<>>]
    /\ trace = <<>>
    /\ entry_flags = [p \in ConcurrentRuns |-> NoValue]
    /\ entry_hwaddr = [p \in ConcurrentRuns |-> <<>>]

\* the steps of change_mac_address, from entry to return
NextConcurrent ==
    \/ \E p \in procs : Socket(p)
    \/ \E p \in procs : GetFlags(p)
    \/ \E p \in procs : Down(p)
    \/ \E p \in procs : SetHwaddr(p)
    \/ \E p \in procs : Recover(p)
    \/ \E p \in procs : Up(p)

SpecConcurrent == InitConcurrent /\ [][NextConcurrent]_vars

(***************************************************************************)
(* What the properties speak about.                                        *)
(***************************************************************************)
\* the requests process p has made, in order
Requests(p) == SelectSeq(trace, LAMBDA r : r.proc = p)

\* the ioctl requests process p has made, in order
Ioctls(p) == SelectSeq(trace, LAMBDA r : r.proc = p /\ r.op \notin {"socket", "close"})

Returned(p) == result[p] # "none"

\* process p's request made at source line `site`, if it has made one
Made(p, site) == \E i \in 1..Len(trace) : trace[i].proc = p /\ trace[i].site = site

Succeeded(p, site) ==
    \E i \in 1..Len(trace) : trace[i].proc = p /\ trace[i].site = site /\ trace[i].ok

Failed(p, site) ==
    \E i \in 1..Len(trace) : trace[i].proc = p /\ trace[i].site = site /\ ~trace[i].ok

\* position in the trace of process p's request made at source line `site` (0: none)
Pos(p, site) ==
    IF Made(p, site)
    THEN CHOOSE i \in 1..Len(trace) : trace[i].proc = p /\ trace[i].site = site
    ELSE 0

(***************************************************************************)
(* C1.  As claimed: whenever change_mac_address returns false on an        *)
(* interface that was administratively up at entry, the interface is not   *)
(* administratively down at return, whichever requests failed.             *)
(***************************************************************************)
C1_NeverLeftDown ==
    \A p \in procs :
        (result[p] = "false" /\ IsUp(entry_flags[p])) => IsUp(if_flags)

(***************************************************************************)
(* C1, amended.  When change_mac_address returns false on an interface     *)
(* that was administratively up at entry, the interface is                 *)
(* administratively down at return exactly when the SIOCSIFFLAGS request   *)
(* that puts the original flags back (the restore at line 128 or the       *)
(* recovery at line 120) was issued and failed.                            *)
(***************************************************************************)
C1_LeftDownOnlyIfRestoreFailed ==
    \A p \in procs :
        (result[p] = "false" /\ IsUp(entry_flags[p]))
            => (IsUp(if_flags) <=> ~(Failed(p, 120) \/ Failed(p, 128)))

C1_Witness ==
    \E p \in procs :
        /\ result[p] = "false"
        /\ IsUp(entry_flags[p])
        /\ Failed(p, 117)
        /\ Succeeded(p, 120)
        /\ IsUp(if_flags)

(***************************************************************************)
(* C2.  Whenever change_mac_address returns true, the interface's hardware *)
(* address is the six bytes of new_mac and its flags are the flags it had  *)
(* at entry.                                                               *)
(***************************************************************************)
C2_TrueMeansChanged ==
    \A p \in procs :
        result[p] = "true" =>
            /\ Len(if_hwaddr) = 6
            /\ \A i \in 1..6 : if_hwaddr[i] = new_mac[p][i]
            /\ if_flags = entry_flags[p]

C2_Witness ==
    \E p \in procs :
        /\ result[p] = "true"
        /\ if_hwaddr = new_mac[p]
        /\ new_mac[p] # entry_hwaddr[p]
        /\ if_flags = entry_flags[p]
        /\ IsUp(entry_flags[p])
        /\ entry_flags[p] # IFF_UP

(***************************************************************************)
(* C3.  The steps occur in the order bring-down, change, bring-up:         *)
(* SIOCSIFHWADDR is issued only after a SIOCSIFFLAGS request with IFF_UP   *)
(* cleared has succeeded, so it is issued while the interface is           *)
(* administratively down; and a SIOCSIFFLAGS request that puts the         *)
(* original flags back is issued only after the SIOCSIFHWADDR attempt.     *)
(***************************************************************************)
C3_DownChangeUp ==
    /\ \A i \in 1..Len(trace) :
        trace[i].op = "SIOCSIFHWADDR" =>
            \E j \in 1..(i - 1) :
                /\ trace[j].proc = trace[i].proc
                /\ trace[j].op = "SIOCSIFFLAGS"
                /\ ~IsUp(trace[j].w0)
                /\ trace[j].ok
    /\ \A i \in 1..Len(trace) :
        (trace[i].op = "SIOCSIFFLAGS" /\ trace[i].site \in {120, 128}) =>
            \E j \in 1..(i - 1) :
                /\ trace[j].proc = trace[i].proc
                /\ trace[j].op = "SIOCSIFHWADDR"
    /\ \A p \in procs : pc[p] = "set_hwaddr" => ~IsUp(if_flags)

C3_Witness ==
    \E p \in procs :
        /\ IsUp(entry_flags[p])
        /\ Pos(p, 106) > 0
        /\ Pos(p, 106) < Pos(p, 117)
        /\ Pos(p, 117) < Pos(p, 128)
        /\ Succeeded(p, 128)

(***************************************************************************)
(* C4.  For every sequence of six values returned by rand(), the address   *)
(* generate_mac_address returns has the locally-administered bit (0x02)    *)
(* set and the multicast bit (0x01) clear in its first byte, agrees with   *)
(* the first value modulo 256 on the six upper bits of the first byte, and *)
(* has bytes 1..5 equal to the corresponding values modulo 256.            *)
(***************************************************************************)
C4_GeneratedAddress ==
    \A p \in procs :
        new_mac[p] # <<>> =>
            /\ Len(new_mac[p]) = 6
            /\ Len(rands[p]) = 6
            /\ (new_mac[p][1] \div 2) % 2 = 1
            /\ new_mac[p][1] % 2 = 0
            /\ new_mac[p][1] \div 4 = (rands[p][1] % 256) \div 4
            /\ \A i \in 2..6 : new_mac[p][i] = rands[p][i] % 256

\* a first value with the multicast bit set and the locally-administered bit clear,
\* and a later value above 255
C4_Witness ==
    \E p \in procs :
        /\ new_mac[p] # <<>>
        /\ rands[p][1] % 4 = 1
        /\ rands[p][2] = RAND_MAX
        /\ new_mac[p][2] = 255

(***************************************************************************)
(* C5.  As claimed: whenever change_mac_address returns false, the         *)
(* interface's hardware address at return is the address it had at entry.  *)
(***************************************************************************)
C5_FalseMeansUnchanged ==
    \A p \in procs :
        result[p] = "false" => if_hwaddr = entry_hwaddr[p]

(***************************************************************************)
(* C6.  As claimed: if change_mac_address fails at a step after the        *)
(* bring-down step has succeeded, the interface does not carry its         *)
(* original hardware address at return.                                    *)
(***************************************************************************)
C6_PartialFailureNotOriginal ==
    \A p \in procs :
        (result[p] = "false" /\ Succeeded(p, 106)) => if_hwaddr # entry_hwaddr[p]

(***************************************************************************)
(* C6, amended.  If change_mac_address fails at a step after the           *)
(* bring-down step has succeeded, then at return the interface carries     *)
(* new_mac when SIOCSIFHWADDR had succeeded (the failing step is the flag  *)
(* restore), and still carries its original hardware address when          *)
(* SIOCSIFHWADDR is the step that failed.                                  *)
(***************************************************************************)
C6_PartialFailureAddress ==
    \A p \in procs :
        (result[p] = "false" /\ Succeeded(p, 106)) =>
            /\ Succeeded(p, 117) => if_hwaddr = new_mac[p]
            /\ Failed(p, 117) => if_hwaddr = entry_hwaddr[p]
            /\ Succeeded(p, 117) \/ Failed(p, 117)

C6_Witness ==
    \E p \in procs :
        /\ result[p] = "false"
        /\ Succeeded(p, 117)
        /\ Failed(p, 128)
        /\ if_hwaddr = new_mac[p]
        /\ if_hwaddr # entry_hwaddr[p]

(***************************************************************************)
(* C7.  Each invocation performs at most one hardware-address change and   *)
(* at most one recovery attempt: SIOCSIFHWADDR is issued at most once, the *)
(* recovery SIOCSIFFLAGS (line 120) at most once and only after            *)
(* SIOCSIFHWADDR failed, all requests carry the same interface name, at    *)
(* most four ioctl requests are made, and an invocation, once entered,     *)
(* eventually returns true or false.                                       *)
(***************************************************************************)
Count(seq, Test(_)) == Len(SelectSeq(seq, Test))

C7_AtMostOnce ==
    \A p \in procs :
        LET io == Ioctls(p)
        IN  /\ Count(io, LAMBDA r : r.op = "SIOCSIFHWADDR") <= 1
            /\ Count(io, LAMBDA r : r.site = 120) <= 1
            /\ Made(p, 120) => (Failed(p, 117) /\ Pos(p, 117) < Pos(p, 120))
            /\ \A i, j \in 1..Len(io) : io[i].name = io[j].name
            /\ Len(io) <= 4
            /\ Returned(p) => result[p] \in {"true", "false"}

C7_OneChangeThenReturn ==
    /\ []C7_AtMostOnce
    /\ \A p \in SingleRun : (pc[p] = "socket") ~> Returned(p)

\* an invocation that made four ioctl requests, the last one the recovery
C7_Witness ==
    \E p \in procs :
        /\ Returned(p)
        /\ Len(Ioctls(p)) = 4
        /\ Ioctls(p)[3].op = "SIOCSIFHWADDR"
        /\ ~Ioctls(p)[3].ok
        /\ Ioctls(p)[4].site = 120
        /\ Ioctls(p)[4].name = Strncpy(argv1[p], IFNAMSIZ - 1)
        /\ Len(argv1[p]) > Len(Ioctls(p)[4].name)

HexVal(c) ==
    IF \E v \in 0..15 : HexDigits[v + 1] = c
    THEN CHOOSE v \in 0..15 : HexDigits[v + 1] = c
    ELSE -1

\* the six bytes a line "New MAC: hh:hh:hh:hh:hh:hh\n" reads back as
ParseNewMac(line) == [i \in 1..6 |-> 16 * HexVal(line[3 * i - 1]) + HexVal(line[3 * i])]

IsNewMacLine(line) ==
    /\ Len(line) = 19
    /\ line[1] = "New MAC: "
    /\ \A i \in 1..5 : line[3 * i + 1] = ":"
    /\ line[19] = "\n"

C9_ExitStatusAndOutput ==
    \A p \in procs :
        pc[p] = "exit" =>
            IF argc[p] >= 2
            THEN /\ (exit_code[p] = EXIT_SUCCESS) <=> (result[p] = "true")
                 /\ IsNewMacLine(out[p]) <=> (result[p] = "true")
                 /\ result[p] = "true" =>
                        /\ ParseNewMac(out[p]) = new_mac[p]
                        /\ ParseNewMac(out[p]) = trace[Pos(p, 117)].data
                 /\ result[p] # "true" =>
                        /\ exit_code[p] = EXIT_FAILURE
                        /\ out[p] = <<>>
                        /\ err[p][Len(err[p])] = "Failed to change MAC address.\n"
            ELSE /\ exit_code[p] = EXIT_FAILURE
                 /\ rands[p] = <<>>
                 /\ mac_addr[p] = <<>>
                 /\ new_mac[p] = <<>>
                 /\ Requests(p) = <<>>

\* a successful run whose address has bytes below 16 and a byte of 255
C9_Witness ==
    \E p \in procs :
        /\ pc[p] = "exit"
        /\ exit_code[p] = EXIT_SUCCESS
        /\ IsNewMacLine(out[p])
        /\ new_mac[p][1] = 2
        /\ new_mac[p][2] = 255
        /\ new_mac[p][3] = 1

(***************************************************************************)
(* C10.  When SIOCSIFHWADDR fails, change_mac_address issues exactly one   *)
(* SIOCSIFFLAGS request, carrying the flags read at entry, ignores its     *)
(* result and returns false; if that request succeeds the interface is     *)
(* back in its entry state (original flags and original hardware address). *)
(***************************************************************************)
\* the requests process p made after its SIOCSIFHWADDR request
AfterSetHwaddr(p) ==
    LET rs == Requests(p)
        k == CHOOSE i \in 1..Len(rs) : rs[i].site = 117
    IN  SubSeq(rs, k + 1, Len(rs))

C10_SingleRecovery ==
    \A p \in procs :
        (Failed(p, 117) /\ Returned(p)) =>
            LET after == AfterSetHwaddr(p)
            IN  /\ result[p] = "false"
                /\ Len(after) = 2
                /\ after[1].op = "SIOCSIFFLAGS"
                /\ after[1].w0 = original_flags[p]
                /\ after[1].w0 = entry_flags[p]
                /\ after[2].op = "close"
                /\ pc[p] = "report" => err[p][Len(err[p])] = "ioctl (SIOCSIFHWADDR)"
                /\ after[1].ok => (if_flags = entry_flags[p] /\ if_hwaddr = entry_hwaddr[p])

C10_Witness ==
    \E p \in procs :
        /\ Failed(p, 117)
        /\ Succeeded(p, 120)
        /\ result[p] = "false"
        /\ entry_flags[p] = 3
        /\ if_flags = 3
        /\ if_hwaddr = entry_hwaddr[p]
        /\ new_mac[p] # entry_hwaddr[p]

(***************************************************************************)
(* C11.  If socket creation, the SIOCGIFFLAGS read or the SIOCSIFFLAGS     *)
(* bring-down request fails, change_mac_address returns false without      *)
(* making any later ioctl request (no SIOCSIFHWADDR, no flag restore), and *)
(* the interface's flags and hardware address are as they were at entry.   *)
(***************************************************************************)
C11_EarlyFailureLeavesNoTrace ==
    \A p \in procs :
        \A site \in {84, 95, 106} :
            (Failed(p, site) /\ Returned(p)) =>
                /\ result[p] = "false"
                /\ \A i \in 1..Len(trace) :
                    (trace[i].proc = p /\ i > Pos(p, site)) => trace[i].op = "close"
                /\ ~Made(p, 117)
                /\ ~Made(p, 120)
                /\ ~Made(p, 128)
                /\ if_flags = entry_flags[p]
                /\ if_hwaddr = entry_hwaddr[p]

\* the bring-down request failed on an interface that was up
C11_Witness ==
    \E p \in procs :
        /\ Failed(p, 106)
        /\ Returned(p)
        /\ IsUp(entry_flags[p])
        /\ IsUp(if_flags)
        /\ new_mac[p] # entry_hwaddr[p]

(***************************************************************************)
(* C12.  As claimed: when two invocations of change_mac_address run        *)
(* concurrently on the same interface, which is administratively up before *)
(* either starts, and every ioctl of both succeeds, then whatever the      *)
(* interleaving the interface is administratively up after both have       *)
(* returned.                                                               *)
(***************************************************************************)
\* the interface's flags before any request was made: those seen by the
\* process that made the first request
FlagsBeforeAll == entry_flags[trace[1].proc]

AllRequestsSucceeded == \A i \in 1..Len(trace) : trace[i].ok

C12_ConcurrentRunsEndUp ==
    ( /\ Cardinality(procs) = 2
      /\ \A p \in procs : Returned(p)
      /\ AllRequestsSucceeded
      /\ IsUp(FlagsBeforeAll) )
        => IsUp(if_flags)

(***************************************************************************)
(* C13.  Every flags value change_mac_address writes with SIOCSIFFLAGS is  *)
(* the flags value read at entry or that value with only IFF_UP cleared,   *)
(* on every path, the recovery path included; so the interface's flags     *)
(* never differ from those at entry in any bit other than IFF_UP.          *)
(***************************************************************************)
\* flags with the IFF_UP bit (the lowest bit) cleared and every other bit kept
WithoutUp(flags) == flags - (flags % (2 * IFF_UP)) + (flags % IFF_UP)

C13_OnlyUpBitTouched ==
    /\ \A i \in 1..Len(trace) :
        trace[i].op = "SIOCSIFFLAGS" =>
            \/ trace[i].w0 = original_flags[trace[i].proc]
            \/ trace[i].w0 = WithoutUp(original_flags[trace[i].proc])
    /\ \A p \in procs :
        Made(p, 84) => if_flags \in {entry_flags[p], WithoutUp(entry_flags[p])}

\* the recovery path on an interface with IFF_UP and another flag set
C13_Witness ==
    \E p \in procs :
        /\ original_flags[p] = 3
        /\ Succeeded(p, 106)
        /\ trace[Pos(p, 106)].w0 = 2
        /\ Made(p, 120)
        /\ trace[Pos(p, 120)].w0 = 3

(***************************************************************************)
(* C14.  On every return path of change_mac_address on which socket        *)
(* creation succeeded, the socket is closed exactly once, as the last      *)
(* request before returning, and every ioctl was made on it before the     *)
(* close; on the path where socket creation failed, there is no close and  *)
(* no ioctl.                                                               *)
(***************************************************************************)
C14_SocketClosedOnce ==
    \A p \in procs :
        LET rs == Requests(p)
        IN  /\ ~Returned(p) => Count(rs, LAMBDA r : r.op = "close") = 0
            /\ (Returned(p) /\ Succeeded(p, 84)) =>
                    /\ Count(rs, LAMBDA r : r.op = "close") = 1
                    /\ rs[Len(rs)].op = "close"
                    /\ rs[Len(rs)].fd = rs[1].fd
                    /\ rs[1].fd >= 0
                    /\ \A i \in 2..(Len(rs) - 1) : rs[i].fd = rs[1].fd
            /\ (Returned(p) /\ Failed(p, 84)) =>
                    /\ Len(rs) = 1
                    /\ rs[1].op = "socket"

\* the restore request failed: the socket is closed on that error path
C14_Witness ==
    \E p \in procs :
        /\ Returned(p)
        /\ Succeeded(p, 84)
        /\ Failed(p, 128)
        /\ Len(Requests(p)) = 6
        /\ Requests(p)[6].site = 130

====
